---------------------------- MODULE Spec2Model ----------------------------
(***************************************************************************)
(* Event matchmaking backend (backend/app): the matching engine of         *)
(* routers/matching.py and the request handlers around it, run against a   *)
(* shared relational store.  Every handler is a sequence of store calls;   *)
(* one store call, together with the local computation that follows it,    *)
(* is one atomic step, and the steps of different requests interleave.     *)
(* The model follows one event and its guests, answers and matches; the    *)
(* handlers that only read (get_event, get_all_matches, ...), the question *)
(* handlers and delete_event are not part of it.                           *)
(***************************************************************************)
EXTENDS Integers, Sequences, FiniteSets, TLC

(***************************************************************************)
(* Bounds of the model.                                                    *)
(***************************************************************************)
\* guests that may join the event
MaxGuests == 3
\* stored matches beyond which no further manual match is requested
MaxMatches == 3
\* guests of the event in the specification of the algorithm
MaxAlgoGuests == 4
\* questions of the event in the specification of the similarity score
MaxQuestions == 3
\* requests received in one behaviour
MaxRequests == 3

(***************************************************************************)
(* Program constants.                                                      *)
(***************************************************************************)
\* models.py: matches_per_guest: int = Field(1, ge=1, le=5)
MinMatchesPerGuest == 1
MaxMatchesPerGuest == 5

\* Python's None, JSON null, an SQL NULL column
None == "None"

\* the event of the model and its join code; an unknown code
EventId == "E1"
EventCode == "CODE1"
OtherEventId == "E2"
Codes == {EventCode, "NOCODE"}

\* authenticated users (auth.py, get_current_user): the host and another user
HostUser == "host"
Users == {HostUser, "other"}

MatchingModes == {"any", "preference_based"}
Genders == {"male", "female", "other"}
LookingFors == {"male", "female", "any"}

(***************************************************************************)
(* Scores.  calculate_similarity returns the float matches / len(common);  *)
(* float division is a function of the rational value, and distinct        *)
(* rationals with these small denominators are distinct floats, so a score *)
(* is kept as the fraction in lowest terms <<numerator, denominator>>.     *)
(***************************************************************************)
RECURSIVE GCD(_, _)
GCD(a, b) == IF b = 0 THEN a ELSE GCD(b, a % b)

Ratio(n, d) == LET g == GCD(n, d) IN <<n \div g, d \div g>>

ScoreZero == <<0, 1>>
ScoreOne == <<1, 1>>

\* x > y on scores
ScoreGT(x, y) == x[1] * y[2] > y[1] * x[2]
\* x >= y on scores
ScoreGE(x, y) == x[1] * y[2] >= y[1] * x[2]

(***************************************************************************)
(* Python dict.get(key, default): the default only when the key is absent. *)
(***************************************************************************)
DictGet(d, key, default) == IF key \in DOMAIN d THEN d[key] ELSE default

\* mutant: the score is taken over the first guest's answers, not the common ones
similarity_over_first(responses_a, responses_b) ==
    IF DOMAIN responses_a = {} \/ DOMAIN responses_b = {}
    THEN ScoreZero
    ELSE LET common_questions == DOMAIN responses_a \cap DOMAIN responses_b
         IN  IF common_questions = {}
             THEN ScoreZero
             ELSE LET matchCount == Cardinality({q \in common_questions :
                                         responses_a[q] = responses_b[q]})
                  IN  Ratio(matchCount, Cardinality(DOMAIN responses_a))

(***************************************************************************)
(* calculate_similarity(responses_a, responses_b), matching.py 12-29.      *)
(* An answer map is a function from question ids to answers.               *)
(***************************************************************************)
calculate_similarity(responses_a, responses_b) ==
    IF DOMAIN responses_a = {} \/ DOMAIN responses_b = {}
    THEN ScoreZero
    ELSE LET common_questions == DOMAIN responses_a \cap DOMAIN responses_b
         IN  IF common_questions = {}
             THEN ScoreZero
             ELSE LET matchCount == Cardinality({q \in common_questions :
                                         responses_a[q] = responses_b[q]})
                  IN  Ratio(matchCount, Cardinality(common_questions))

(***************************************************************************)
(* is_compatible(guest_a, guest_b), matching.py 92-107, with the           *)
(* matching_mode it closes over.  A guest row read from the store holds    *)
(* every selected column, an unset one as None.                            *)
(***************************************************************************)
is_compatible(guest_a, guest_b, matching_mode) ==
    IF matching_mode # "preference_based"
    THEN TRUE
    ELSE LET a_looking == DictGet(guest_a, "looking_for", "any")
             b_looking == DictGet(guest_b, "looking_for", "any")
             a_gender == DictGet(guest_a, "gender", None)
             b_gender == DictGet(guest_b, "gender", None)
             a_matches_b == a_looking = "any" \/ a_looking = b_gender
             b_matches_a == b_looking = "any" \/ b_looking = a_gender
         IN  a_matches_b /\ b_matches_a

(***************************************************************************)
(* itertools.combinations(guests, 2): the pairs <<s[i], s[j]>>, i < j, in  *)
(* lexicographic order of (i, j).                                          *)
(***************************************************************************)
RECURSIVE CombinationsFrom(_, _)
CombinationsFrom(s, i) ==
    IF i >= Len(s)
    THEN <<>>
    ELSE [k \in 1..(Len(s) - i) |-> <<s[i], s[i + k]>>] \o CombinationsFrom(s, i + 1)

combinations2(s) == CombinationsFrom(s, 1)

Range(s) == {s[i] : i \in DOMAIN s}

(***************************************************************************)
(* guest_responses, matching.py 80-90: the answer map of every guest of    *)
(* the run, from the response rows read.                                   *)
(***************************************************************************)
guest_responses(guestRows, responseRows) ==
    [g \in {x.id : x \in Range(guestRows)} |->
        LET mine == {row \in responseRows : row.guest_id = g}
        IN  [q \in {row.question_id : row \in mine} |->
                (CHOOSE row \in mine : row.question_id = q).answer]]

(***************************************************************************)
(* similarities, matching.py 110-118: the score of every compatible pair,  *)
(* under both orders of its two ids.                                       *)
(***************************************************************************)
similarities(guestRows, gr, matching_mode) ==
    LET compat == {p \in Range(combinations2(guestRows)) :
                        is_compatible(p[1], p[2], matching_mode)}
        keys == {<<p[1].id, p[2].id>> : p \in compat}
                    \cup {<<p[2].id, p[1].id>> : p \in compat}
    IN  [k \in keys |->
            LET p == CHOOSE x \in compat : {x[1].id, x[2].id} = {k[1], k[2]}
            IN  calculate_similarity(gr[p[1].id], gr[p[2].id])]

(***************************************************************************)
(* all_pairs before the sort, matching.py 125-129.                         *)
(***************************************************************************)
all_pairs_unsorted(guestRows, sim) ==
    LET comb == combinations2(guestRows)
        kept == SelectSeq(comb, LAMBDA p : <<p[1].id, p[2].id>> \in DOMAIN sim)
    IN  [i \in 1..Len(kept) |->
            [a |-> kept[i][1].id, b |-> kept[i][2].id,
             score |-> sim[<<kept[i][1].id, kept[i][2].id>>]]]

(***************************************************************************)
(* all_pairs.sort(key=lambda x: x[2], reverse=True), matching.py 131: a    *)
(* stable sort, equal scores keep their order.                             *)
(***************************************************************************)
\* mutant: a sort that is not stable, a pair goes before the pairs of its score
InsertBeforeTies(sorted, x) ==
    LET k == Cardinality({i \in 1..Len(sorted) : ScoreGT(sorted[i].score, x.score)})
    IN  SubSeq(sorted, 1, k) \o <<x>> \o SubSeq(sorted, k + 1, Len(sorted))

InsertByScore(sorted, x) ==
    LET k == Cardinality({i \in 1..Len(sorted) : ScoreGE(sorted[i].score, x.score)})
    IN  SubSeq(sorted, 1, k) \o <<x>> \o SubSeq(sorted, k + 1, Len(sorted))

RECURSIVE SortFrom(_, _, _)
SortFrom(s, i, sorted) ==
    IF i > Len(s) THEN sorted ELSE SortFrom(s, i + 1, InsertByScore(sorted, s[i]))

sort_by_score_desc(s) == SortFrom(s, 1, <<>>)

all_pairs(guestRows, responseRows, matching_mode) ==
    LET gr == guest_responses(guestRows, responseRows)
        sim == similarities(guestRows, gr, matching_mode)
    IN  sort_by_score_desc(all_pairs_unsorted(guestRows, sim))

(***************************************************************************)
(* The greedy assignment, matching.py 120-143.                             *)
(***************************************************************************)
\* mutant: the limit is reached one match early
below_limit_one_early(match_count, guest_a_id, guest_b_id, matches_per_guest) ==
    /\ match_count[guest_a_id] + 1 < matches_per_guest
    /\ match_count[guest_b_id] + 1 < matches_per_guest

\* mutant: only the first endpoint is checked
below_limit_first_only(match_count, guest_a_id, guest_b_id, matches_per_guest) ==
    match_count[guest_a_id] < matches_per_guest

\* line 135: both endpoints are below the limit
below_limit(match_count, guest_a_id, guest_b_id, matches_per_guest) ==
    /\ match_count[guest_a_id] < matches_per_guest
    /\ match_count[guest_b_id] < matches_per_guest

RECURSIVE GreedyFrom(_, _, _, _, _, _)
GreedyFrom(pairs, i, match_count, matches_to_insert, matches_per_guest, event_id) ==
    IF i > Len(pairs)
    THEN matches_to_insert
    ELSE LET p == pairs[i]
         IN  IF below_limit(match_count, p.a, p.b, matches_per_guest)
             THEN GreedyFrom(pairs, i + 1,
                      [match_count EXCEPT ![p.a] = @ + 1, ![p.b] = @ + 1],
                      Append(matches_to_insert,
                             [event_id |-> event_id, guest_a_id |-> p.a,
                              guest_b_id |-> p.b, score |-> p.score]),
                      matches_per_guest, event_id)
             ELSE GreedyFrom(pairs, i + 1, match_count, matches_to_insert,
                             matches_per_guest, event_id)

\* the pairs of a list from its last to its first
Reversed(pairs) == [i \in 1..Len(pairs) |-> pairs[Len(pairs) + 1 - i]]

\* mutant: the ranked pairs are consumed from the lowest score up
greedy_assign_lowest_first(guestRows, pairs, matches_per_guest, event_id) ==
    GreedyFrom(Reversed(pairs), 1, [g \in {x.id : x \in Range(guestRows)} |-> 0], <<>>,
               matches_per_guest, event_id)

greedy_assign(guestRows, pairs, matches_per_guest, event_id) ==
    GreedyFrom(pairs, 1, [g \in {x.id : x \in Range(guestRows)} |-> 0], <<>>,
               matches_per_guest, event_id)

\* matches_to_insert of a run, matching.py 74-143
compute_matches(guestRows, responseRows, matching_mode, matches_per_guest, event_id) ==
    greedy_assign(guestRows, all_pairs(guestRows, responseRows, matching_mode),
                  matches_per_guest, event_id)
(***************************************************************************)
(* The store and the requests.                                             *)
(*                                                                         *)
(*   event      the row of the events table (events.py 64-75)              *)
(*   guests     the guests table, in insertion order                       *)
(*   responses  the responses table, unique on (guest_id, question_id)     *)
(*   matches    the matches table, in insertion order                      *)
(*   req        the requests being handled: the handler, its position,     *)
(*              its arguments and its local variables                      *)
(***************************************************************************)
\*   started    the number of requests received so far
VARIABLES event, guests, responses, matches, req, started

vars == <<event, guests, responses, matches, req, started>>
store == <<event, guests, responses, matches>>

\* request slots: two requests may be in flight at once
Req == {"r1", "r2"}

\* code.upper() on the codes a request may carry
Upper(code) == IF code = "code1" THEN "CODE1" ELSE code
RequestCodes == {"code1", "NOCODE"}

\* ids of the store: a guest id is its position in the guests table (guests
\* are never deleted), a match id the least id no stored match has
GuestIds == 1..(MaxGuests + 1)
MatchIds == 1..(MaxMatches + 1)

RECURSIVE FreshId(_, _)
FreshId(used, n) == IF n \in used THEN FreshId(used, n + 1) ELSE n

\* supabase.table("matches").insert(rows): the store gives each row its id
RECURSIVE InsertMatches(_, _, _)
InsertMatches(table, rows, i) ==
    IF i > Len(rows)
    THEN table
    ELSE InsertMatches(
            Append(table, [id |-> FreshId({m.id : m \in Range(table)}, 1),
                           event_id |-> rows[i].event_id,
                           guest_a_id |-> rows[i].guest_a_id,
                           guest_b_id |-> rows[i].guest_b_id,
                           score |-> rows[i].score]),
            rows, i + 1)

\* the event's guests, as a select on event_id returns them
EventGuests(event_id) == SelectSeq(guests, LAMBDA g : g.event_id = event_id)

\* select ... from events where code = c
EventsByCode(code) == IF event.code = code THEN {event} ELSE {}

NoArg == [none |-> TRUE]
NoData == <<>>
\* deleted: what the delete call of a run returned, {} before the call
\* all_pairs: the ranked pair list of a run, <<>> before it is computed
Idle == [op |-> "idle", pc |-> "idle", user |-> None, arg |-> NoArg,
         ev |-> {}, guests |-> <<>>, data |-> NoData, deleted |-> {},
         all_pairs |-> <<>>, status |-> 0, result |-> NoArg]

\* a request arrives at a free slot; its handler starts with the select of
\* the event by code
Arrives(r) ==
    /\ req[r].pc = "idle"
    /\ started < MaxRequests
    /\ \A s \in Req : req[s].pc # "done"

\* the handler returns or raises HTTPException: the response of the request
Reply(r, op, user, arg, status, result) ==
    req' = [req EXCEPT ![r] = [Idle EXCEPT !.op = op, !.pc = "done",
                                           !.user = user, !.arg = arg,
                                           !.status = status,
                                           !.result = result]]

Respond(r, status, result) ==
    Reply(r, req[r].op, req[r].user, req[r].arg, status, result)

\* the handler has read the event and goes on to its next store call
Begin(r, op, user, arg, pc, ev) ==
    req' = [req EXCEPT ![r] = [Idle EXCEPT !.op = op, !.pc = pc, !.user = user,
                                           !.arg = arg, !.ev = ev]]

\* the handler goes on to its next store call
Goto(r, pc, ev, gs, data) ==
    req' = [req EXCEPT ![r] = [@ EXCEPT !.pc = pc, !.ev = ev, !.guests = gs,
                                        !.data = data]]

At(r, op, pc) ==
    /\ req[r].op = op
    /\ req[r].pc = pc
    /\ \A s \in Req : req[s].pc # "done"

Error(detail) == [detail |-> detail]

\* mutant: no host check
host_check_absent(e, current_user) == FALSE

\* the host check of the matching router (matching.py 56, 174, 219, 304, 343)
not_host(e, current_user) ==
    e.host_user_id # None /\ e.host_user_id # current_user

(***************************************************************************)
(* The requests a client may send (models.py: EventUpdate, GuestJoin,      *)
(* AnswersSubmit), drawn from small sets.                                  *)
(***************************************************************************)
SmallCaps == {1, 2}

JoinInputs ==
    {[nickname |-> "ann", gender |-> "female", looking_for |-> "male"],
     [nickname |-> "bob", gender |-> "male", looking_for |-> "female"],
     [nickname |-> "cy", gender |-> None, looking_for |-> None]}

UpdateInputs ==
    {[name |-> None, matching_mode |-> None, matches_per_guest |-> {}],
     [name |-> "party", matching_mode |-> None, matches_per_guest |-> {}]}
    \cup [name : {None}, matching_mode : MatchingModes, matches_per_guest : {{}}]
    \cup [name : {None}, matching_mode : {None},
          matches_per_guest : {{n} : n \in SmallCaps}]
    \cup {[name |-> None, matching_mode |-> "preference_based",
           matches_per_guest |-> {2}]}

SubmitInputs == [guest_id : GuestIds, answers : {1 :> "x"}]

\* the two guest ids of a manual match: two guests of the event, one guest
\* twice, a guest of another event, a guest that may not have joined yet
ManualInputs ==
    {[guest_a_id |-> 2, guest_b_id |-> 3], [guest_a_id |-> 3, guest_b_id |-> 2],
     [guest_a_id |-> 2, guest_b_id |-> 2], [guest_a_id |-> 1, guest_b_id |-> 2],
     [guest_a_id |-> 2, guest_b_id |-> 4]}

\* guests of the event joined or joining
Joining == Cardinality({r \in Req : req[r].op = "join_event" /\ req[r].pc # "done"})

(***************************************************************************)
(* run_matching, matching.py 32-155.                                       *)
(***************************************************************************)
\* lines 42-60: the event by code, 404, the host check
RunReadEvent(r) ==
    /\ Arrives(r)
    /\ \E code \in RequestCodes, user \in Users :
       LET found == EventsByCode(Upper(code))
       IN  IF found = {}
           THEN Reply(r, "run_matching", user, NoArg, 404, Error("Event not found"))
           ELSE LET e == CHOOSE x \in found : TRUE
                IN  IF not_host(e, user)
                    THEN Reply(r, "run_matching", user, NoArg, 403, Error("Only the host can run matching"))
                    ELSE Begin(r, "run_matching", user, NoArg, "read_guests",
                               {[id |-> e.id,
                                 matching_mode |-> e.matching_mode,
                                 matches_per_guest |-> e.matches_per_guest]})
    /\ started' = started + 1
    /\ UNCHANGED store

\* mutant: one guest is enough
too_few_guests_below_one(guestRows) == Len(guestRows) < 1

\* line 68
too_few_guests(guestRows) == Len(guestRows) < 2

\* lines 62-72: the guests of the event, 400 below two
RunReadGuests(r) ==
    /\ At(r, "run_matching", "read_guests")
    /\ LET e == CHOOSE x \in req[r].ev : TRUE
           guestRows == EventGuests(e.id)
       IN  IF too_few_guests(guestRows)
           THEN Respond(r, 400, Error("Need at least 2 guests to run matching"))
           ELSE Goto(r, "read_responses", req[r].ev, guestRows, NoData)
    /\ UNCHANGED <<store, started>>

\* mutant: the computation reads the guest list again instead of using the
\* list the request read before
RunReadResponsesRereads(r) ==
    /\ At(r, "run_matching", "read_responses")
    /\ LET e == CHOOSE x \in req[r].ev : TRUE
           guestRows == EventGuests(e.id)
           guest_ids == {g.id : g \in Range(guestRows)}
           rows == {row \in responses : row.guest_id \in guest_ids}
           ranked == all_pairs(guestRows, rows, e.matching_mode)
           matches_to_insert ==
               greedy_assign(guestRows, ranked, e.matches_per_guest, e.id)
       IN  req' = [req EXCEPT ![r] =
                      [@ EXCEPT !.pc = "delete_matches", !.guests = <<>>,
                                !.data = matches_to_insert, !.all_pairs = ranked]]
    /\ UNCHANGED <<store, started>>

\* lines 74-143: the responses of these guests, and the whole computation
RunReadResponses(r) ==
    /\ At(r, "run_matching", "read_responses")
    /\ LET e == CHOOSE x \in req[r].ev : TRUE
           guest_ids == {g.id : g \in Range(req[r].guests)}
           rows == {row \in responses : row.guest_id \in guest_ids}
           ranked == all_pairs(req[r].guests, rows, e.matching_mode)
           matches_to_insert ==
               greedy_assign(req[r].guests, ranked, e.matches_per_guest, e.id)
       IN  req' = [req EXCEPT ![r] =
                      [@ EXCEPT !.pc = "delete_matches", !.guests = <<>>,
                                !.data = matches_to_insert, !.all_pairs = ranked]]
    /\ UNCHANGED <<store, started>>

\* mutant: the delete call is left out
RunDeleteMatchesSkipped(r) ==
    /\ At(r, "run_matching", "delete_matches")
    /\ req' = [req EXCEPT ![r] =
                [@ EXCEPT !.pc = IF req[r].data # <<>> THEN "insert_matches"
                                                       ELSE "update_event",
                          !.deleted = {<<>>}]]
    /\ UNCHANGED <<store, started>>

\* lines 145-146: delete the matches of the event
RunDeleteMatches(r) ==
    /\ At(r, "run_matching", "delete_matches")
    /\ LET e == CHOOSE x \in req[r].ev : TRUE
           next_pc == IF req[r].data # <<>> THEN "insert_matches" ELSE "update_event"
       IN  /\ matches' = SelectSeq(matches, LAMBDA m : m.event_id # e.id)
           /\ req' = [req EXCEPT ![r] =
                        [@ EXCEPT !.pc = next_pc,
                                  !.deleted = {SelectSeq(matches,
                                                  LAMBDA m : m.event_id = e.id)}]]
    /\ UNCHANGED <<started, event, guests, responses>>

\* lines 148-150: insert the new matches
RunInsertMatches(r) ==
    /\ At(r, "run_matching", "insert_matches")
    /\ matches' = InsertMatches(matches, req[r].data, 1)
    /\ Goto(r, "update_event", req[r].ev, <<>>, req[r].data)
    /\ UNCHANGED <<started, event, guests, responses>>

\* mutant: a run also takes the reveal back
RunUpdateEventUnreveals(r) ==
    /\ At(r, "run_matching", "update_event")
    /\ event' = [event EXCEPT !.matching_completed = TRUE,
                              !.matches_revealed = FALSE]
    /\ req' = [req EXCEPT ![r] = [@ EXCEPT !.pc = "done", !.status = 200,
                                           !.result = [matches_count |-> Len(req[r].data)]]]
    /\ UNCHANGED <<started, guests, responses, matches>>

\* lines 152-155: mark the event, return the count
RunUpdateEvent(r) ==
    /\ At(r, "run_matching", "update_event")
    /\ LET e == CHOOSE x \in req[r].ev : TRUE
       IN  event' = IF event.id = e.id
                    THEN [event EXCEPT !.matching_completed = TRUE]
                    ELSE event
    /\ req' = [req EXCEPT ![r] = [@ EXCEPT !.pc = "done", !.status = 200,
                                           !.result = [matches_count |-> Len(req[r].data)]]]
    /\ UNCHANGED <<started, guests, responses, matches>>

(***************************************************************************)
(* reveal_matches, matching.py 203-234.                                    *)
(***************************************************************************)
\* mutant: reveal does not look at matching_completed
reveal_unchecked(e) == FALSE

\* line 225
matching_not_completed(e) == ~e.matching_completed

\* lines 208-229: the event by code, 404, the host check, 400 before matching
RevealReadEvent(r) ==
    /\ Arrives(r)
    /\ \E code \in RequestCodes, user \in Users :
       LET found == EventsByCode(Upper(code))
       IN  IF found = {}
           THEN Reply(r, "reveal_matches", user, NoArg, 404, Error("Event not found"))
           ELSE LET e == CHOOSE x \in found : TRUE
                IN  IF not_host(e, user)
                    THEN Reply(r, "reveal_matches", user, NoArg, 403, Error("Only the host can reveal matches"))
                    ELSE IF matching_not_completed(e)
                    THEN Reply(r, "reveal_matches", user, NoArg, 400, Error("Run matching first before revealing"))
                    ELSE Begin(r, "reveal_matches", user, NoArg, "update_event",
                              {[id |-> e.id]})
    /\ started' = started + 1
    /\ UNCHANGED store

\* mutant: the reveal flips matches_revealed
RevealUpdateEventToggles(r) ==
    /\ At(r, "reveal_matches", "update_event")
    /\ event' = [event EXCEPT !.matches_revealed = ~@]
    /\ Respond(r, 200, [message |-> "Matches revealed to guests"])
    /\ UNCHANGED <<started, guests, responses, matches>>

\* mutant: the reveal writes matching_completed as well
RevealUpdateEventClearsCompleted(r) ==
    /\ At(r, "reveal_matches", "update_event")
    /\ event' = [event EXCEPT !.matches_revealed = TRUE, !.matching_completed = FALSE]
    /\ Respond(r, 200, [message |-> "Matches revealed to guests"])
    /\ UNCHANGED <<started, guests, responses, matches>>

\* lines 231-234
RevealUpdateEvent(r) ==
    /\ At(r, "reveal_matches", "update_event")
    /\ LET e == CHOOSE x \in req[r].ev : TRUE
       IN  event' = IF event.id = e.id
                    THEN [event EXCEPT !.matches_revealed = TRUE]
                    ELSE event
    /\ Respond(r, 200, [message |-> "Matches revealed to guests"])
    /\ UNCHANGED <<started, guests, responses, matches>>

(***************************************************************************)
(* get_my_match, matching.py 237-285.  No authentication.                  *)
(***************************************************************************)
\* mutant: get_my_match does not look at matches_revealed
never_hidden(e) == FALSE

\* line 253
not_revealed(e) == ~e.matches_revealed

\* lines 243-257: the event by code, 404, 403 before the reveal
MyMatchReadEvent(r) ==
    /\ Arrives(r)
    /\ \E code \in RequestCodes, guest_id \in GuestIds :
       LET found == EventsByCode(Upper(code))
       IN  IF found = {}
           THEN Reply(r, "get_my_match", None, [guest_id |-> guest_id], 404, Error("Event not found"))
           ELSE LET e == CHOOSE x \in found : TRUE
                IN  IF not_revealed(e)
                    THEN Reply(r, "get_my_match", None, [guest_id |-> guest_id], 403, Error("Matches have not been revealed yet"))
                    ELSE Begin(r, "get_my_match", None, [guest_id |-> guest_id], "read_matches",
                              {[id |-> e.id]})
    /\ started' = started + 1
    /\ UNCHANGED store

\* lines 259-262: the matches of the event with the guest at either end
matches_of_guest(table, event_id, guest_id) ==
    SelectSeq(table, LAMBDA m : /\ m.event_id = event_id
                                /\ (m.guest_a_id = guest_id \/ m.guest_b_id = guest_id))

\* line 270
matched_guest_id(match, guest_id) ==
    IF match.guest_a_id = guest_id THEN match.guest_b_id ELSE match.guest_a_id

\* lines 259-267: no match, or the first one
MyMatchReadMatches(r) ==
    /\ At(r, "get_my_match", "read_matches")
    /\ LET e == CHOOSE x \in req[r].ev : TRUE
           data == matches_of_guest(matches, e.id, req[r].arg.guest_id)
       IN  IF data = <<>>
           THEN Respond(r, 200, [match |-> {}, message |-> "No match found"])
           ELSE Goto(r, "read_guest", req[r].ev, <<>>, <<data[1]>>)
    /\ UNCHANGED <<store, started>>

\* lines 269-285: the matched guest's row
MyMatchReadGuest(r) ==
    /\ At(r, "get_my_match", "read_guest")
    /\ LET match == req[r].data[1]
           other == matched_guest_id(match, req[r].arg.guest_id)
           data == SelectSeq(guests, LAMBDA g : g.id = other)
       IN  IF data = <<>>
           THEN Respond(r, 200, [match |-> {}, message |-> "Match data unavailable"])
           ELSE Respond(r, 200, [match |-> {[id |-> data[1].id,
                                             nickname |-> data[1].nickname,
                                             score |-> match.score]}])
    /\ UNCHANGED <<store, started>>

(***************************************************************************)
(* delete_match, matching.py 288-319.                                      *)
(***************************************************************************)
DeleteReadEvent(r) ==
    /\ Arrives(r)
    /\ \E code \in RequestCodes, user \in Users, match_id \in MatchIds :
       LET found == EventsByCode(Upper(code))
       IN  IF found = {}
           THEN Reply(r, "delete_match", user, [match_id |-> match_id], 404, Error("Event not found"))
           ELSE LET e == CHOOSE x \in found : TRUE
                IN  IF not_host(e, user)
                    THEN Reply(r, "delete_match", user, [match_id |-> match_id], 403, Error("Only the host can delete matches"))
                    ELSE Begin(r, "delete_match", user, [match_id |-> match_id], "delete",
                              {[id |-> e.id]})
    /\ started' = started + 1
    /\ UNCHANGED store

\* lines 310-319: delete by id within the event, 404 when nothing was deleted
DeleteMatch(r) ==
    /\ At(r, "delete_match", "delete")
    /\ LET e == CHOOSE x \in req[r].ev : TRUE
           hit(m) == m.id = req[r].arg.match_id /\ m.event_id = e.id
           deleted == SelectSeq(matches, hit)
       IN  /\ matches' = SelectSeq(matches, LAMBDA m : ~hit(m))
           /\ IF deleted = <<>>
              THEN Respond(r, 404, Error("Match not found"))
              ELSE Respond(r, 200, [message |-> "Match deleted successfully"])
    /\ UNCHANGED <<started, event, guests, responses>>

(***************************************************************************)
(* create_manual_match, matching.py 322-368.                               *)
(***************************************************************************)
ManualReadEvent(r) ==
    /\ Arrives(r)
    /\ Len(matches) < MaxMatches
    /\ \E code \in RequestCodes, user \in Users, arg \in ManualInputs :
       LET found == EventsByCode(Upper(code))
       IN  IF found = {}
           THEN Reply(r, "create_manual_match", user, arg, 404, Error("Event not found"))
           ELSE LET e == CHOOSE x \in found : TRUE
                IN  IF not_host(e, user)
                    THEN Reply(r, "create_manual_match", user, arg, 403, Error("Only the host can create matches"))
                    ELSE Begin(r, "create_manual_match", user, arg, "read_guests",
                              {[id |-> e.id]})
    /\ started' = started + 1
    /\ UNCHANGED store

\* line 350: the guests of the event whose id is one of the two
guests_of_event_in(event_id, ids) ==
    SelectSeq(guests, LAMBDA g : g.event_id = event_id /\ g.id \in ids)

\* mutant: one selected guest is enough
invalid_guest_ids_none_found(rows) == Len(rows) < 1

\* line 352
invalid_guest_ids(rows) == Len(rows) # 2

\* lines 349-356
ManualReadGuests(r) ==
    /\ At(r, "create_manual_match", "read_guests")
    /\ LET e == CHOOSE x \in req[r].ev : TRUE
           rows == guests_of_event_in(e.id, {req[r].arg.guest_a_id, req[r].arg.guest_b_id})
       IN  IF invalid_guest_ids(rows)
           THEN Respond(r, 400, Error("Invalid guest IDs"))
           ELSE Goto(r, "insert", req[r].ev, <<>>, NoData)
    /\ UNCHANGED <<store, started>>

\* mutant: a manual match gets the score of a pair without answers
match_data_unscored(event_id, guest_a_id, guest_b_id) ==
    [event_id |-> event_id, guest_a_id |-> guest_a_id,
     guest_b_id |-> guest_b_id, score |-> ScoreZero]

\* lines 358-364
match_data(event_id, guest_a_id, guest_b_id) ==
    [event_id |-> event_id, guest_a_id |-> guest_a_id,
     guest_b_id |-> guest_b_id, score |-> ScoreOne]

\* lines 358-368
ManualInsert(r) ==
    /\ At(r, "create_manual_match", "insert")
    /\ LET e == CHOOSE x \in req[r].ev : TRUE
           table == InsertMatches(matches,
                        <<match_data(e.id, req[r].arg.guest_a_id, req[r].arg.guest_b_id)>>, 1)
       IN  /\ matches' = table
           /\ Respond(r, 200, [message |-> "Match created successfully",
                               match |-> {table[Len(table)]}])
    /\ UNCHANGED <<started, event, guests, responses>>

(***************************************************************************)
(* update_event, events.py 242-305.  An absent field of EventUpdate is     *)
(* None (name, matching_mode) or the empty set (matches_per_guest).        *)
(***************************************************************************)
\* line 264: no allowance for an event without a host
not_owner(e, current_user) == e.host_user_id # current_user

\* lines 276-289: a matching setting is in the request and matching is done
immutable_change(e, event_update) ==
    /\ event_update.matching_mode # None \/ event_update.matches_per_guest # {}
    /\ e.matching_completed

\* lines 270-289: update_data, the fields of the request that are not None
update_data_of(event_update) ==
    [field \in {f \in {"name", "matching_mode"} : event_update[f] # None}
        |-> event_update[field]]
    @@ [field \in {f \in {"matches_per_guest"} : event_update[f] # {}}
        |-> CHOOSE n \in event_update[field] : TRUE]

\* lines 251-295
UpdateReadEvent(r) ==
    /\ Arrives(r)
    /\ \E code \in RequestCodes, user \in Users, event_update \in UpdateInputs :
       LET found == EventsByCode(Upper(code))
       IN  IF found = {}
           THEN Reply(r, "update_event", user, event_update, 404, Error("Event not found"))
           ELSE LET e == CHOOSE x \in found : TRUE
                IN  IF not_owner(e, user)
                    THEN Reply(r, "update_event", user, event_update, 403, Error("You don't have permission to edit this event"))
                    ELSE IF immutable_change(e, event_update)
                    THEN Reply(r, "update_event", user, event_update, 400, Error("Cannot change after matching is completed"))
                    ELSE IF DOMAIN update_data_of(event_update) = {}
                    THEN Reply(r, "update_event", user, event_update, 400, Error("No fields to update"))
                    ELSE Begin(r, "update_event", user, event_update, "update",
                               {[id |-> e.id]})
    /\ started' = started + 1
    /\ UNCHANGED store

\* lines 297-305: write the fields of update_data
UpdateWrite(r) ==
    /\ At(r, "update_event", "update")
    /\ LET e == CHOOSE x \in req[r].ev : TRUE
           update_data == update_data_of(req[r].arg)
           new(field, old) == IF field \in DOMAIN update_data
                              THEN update_data[field] ELSE old
       IN  IF event.id = e.id
           THEN /\ event' = [event EXCEPT
                                !.name = new("name", @),
                                !.matching_mode = new("matching_mode", @),
                                !.matches_per_guest = new("matches_per_guest", @)]
                /\ Respond(r, 200, [id |-> e.id])
           ELSE /\ event' = event
                /\ Respond(r, 500, Error("Failed to update event"))
    /\ UNCHANGED <<started, guests, responses, matches>>

(***************************************************************************)
(* join_event, events.py 116-159.  No authentication.                      *)
(***************************************************************************)
JoinReadEvent(r) ==
    /\ Arrives(r)
    /\ Len(EventGuests(EventId)) + Joining < MaxGuests
    /\ \E code \in RequestCodes, guest \in JoinInputs :
       LET found == EventsByCode(Upper(code))
       IN  IF found = {}
           THEN Reply(r, "join_event", None, guest, 404, Error("Event not found"))
           ELSE LET e == CHOOSE x \in found : TRUE
                IN  Begin(r, "join_event", None, guest, "read_nickname",
                              {[id |-> e.id]})
    /\ started' = started + 1
    /\ UNCHANGED store

\* line 133
guests_by_nickname(event_id, nickname) ==
    SelectSeq(guests, LAMBDA g : g.event_id = event_id /\ g.nickname = nickname)

\* lines 132-139
JoinReadNickname(r) ==
    /\ At(r, "join_event", "read_nickname")
    /\ LET e == CHOOSE x \in req[r].ev : TRUE
       IN  IF guests_by_nickname(e.id, req[r].arg.nickname) # <<>>
           THEN Respond(r, 409, Error("Nickname already taken in this event"))
           ELSE Goto(r, "insert", req[r].ev, <<>>, NoData)
    /\ UNCHANGED <<store, started>>

\* lines 141-159: the store gives the new row its id
JoinInsert(r) ==
    /\ At(r, "join_event", "insert")
    /\ LET e == CHOOSE x \in req[r].ev : TRUE
           row == [id |-> Len(guests) + 1, event_id |-> e.id,
                   nickname |-> req[r].arg.nickname,
                   gender |-> req[r].arg.gender,
                   looking_for |-> req[r].arg.looking_for]
       IN  /\ guests' = Append(guests, row)
           /\ Respond(r, 201, [id |-> row.id])
    /\ UNCHANGED <<started, event, responses, matches>>

(***************************************************************************)
(* submit_responses, responses.py 11-57.  No authentication.               *)
(***************************************************************************)
SubmitReadEvent(r) ==
    /\ Arrives(r)
    /\ \E code \in RequestCodes, submission \in SubmitInputs :
       LET found == EventsByCode(Upper(code))
       IN  IF found = {}
           THEN Reply(r, "submit_responses", None, submission, 404, Error("Event not found"))
           ELSE LET e == CHOOSE x \in found : TRUE
                IN  Begin(r, "submit_responses", None, submission, "read_guest",
                              {[id |-> e.id]})
    /\ started' = started + 1
    /\ UNCHANGED store

\* lines 27-40
SubmitReadGuest(r) ==
    /\ At(r, "submit_responses", "read_guest")
    /\ LET e == CHOOSE x \in req[r].ev : TRUE
           data == SelectSeq(guests, LAMBDA g : g.id = req[r].arg.guest_id)
       IN  IF data = <<>>
           THEN Respond(r, 404, Error("Guest not found"))
           ELSE IF data[1].event_id # e.id
           THEN Respond(r, 403, Error("Guest does not belong to this event"))
           ELSE Goto(r, "upsert", req[r].ev, <<>>, NoData)
    /\ UNCHANGED <<store, started>>

\* lines 42-57: upsert on (guest_id, question_id)
SubmitUpsert(r) ==
    /\ At(r, "submit_responses", "upsert")
    /\ LET answers == req[r].arg.answers
           g == req[r].arg.guest_id
       IN  /\ responses' =
                {row \in responses : ~(row.guest_id = g /\ row.question_id \in DOMAIN answers)}
                \cup {[guest_id |-> g, question_id |-> q, answer |-> answers[q]] :
                        q \in DOMAIN answers}
           /\ Respond(r, 201, [count |-> Cardinality(DOMAIN answers)])
    /\ UNCHANGED <<started, event, guests, matches>>

\* the response has been sent
Return(r) ==
    /\ req[r].pc = "done"
    /\ req' = [req EXCEPT ![r] = Idle]
    /\ UNCHANGED <<store, started>>

(***************************************************************************)
(* The state after create_event (events.py 22-83): the flags at their      *)
(* column defaults, no guest of this event, no response, no match.  One    *)
(* guest of another event is in the guests table.                          *)
(***************************************************************************)
NewEvent(host, mode, cap) ==
    [id |-> EventId, code |-> EventCode, name |-> "party",
     host_user_id |-> host, matching_mode |-> mode, matches_per_guest |-> cap,
     matching_completed |-> FALSE, matches_revealed |-> FALSE]

ForeignGuest ==
    [id |-> 1, event_id |-> OtherEventId, nickname |-> "ann",
     gender |-> None, looking_for |-> None]

\* the guests table after the first guests have joined (join_event)
JoinedGuests(n) ==
    LET first == <<[nickname |-> "ann", gender |-> "female", looking_for |-> "male"],
                   [nickname |-> "bob", gender |-> "male", looking_for |-> "female"]>>
    IN  <<ForeignGuest>> \o
        [i \in 1..n |-> [id |-> i + 1, event_id |-> EventId,
                         nickname |-> first[i].nickname,
                         gender |-> first[i].gender,
                         looking_for |-> first[i].looking_for]]

Init ==
    /\ \E host \in {None, HostUser} : event = NewEvent(host, "any", 1)
    /\ \E n \in 1..2 : guests = JoinedGuests(n)
    /\ responses = {}
    /\ matches = <<>>
    /\ req = [r \in Req |-> Idle]
    /\ started = 0

\* a step of the handler of request r
Handler(r) ==
    \/ RunReadEvent(r) \/ RunReadGuests(r) \/ RunReadResponses(r)
    \/ RunDeleteMatches(r) \/ RunInsertMatches(r) \/ RunUpdateEvent(r)
    \/ RevealReadEvent(r) \/ RevealUpdateEvent(r)
    \/ MyMatchReadEvent(r) \/ MyMatchReadMatches(r) \/ MyMatchReadGuest(r)
    \/ DeleteReadEvent(r) \/ DeleteMatch(r)
    \/ ManualReadEvent(r) \/ ManualReadGuests(r) \/ ManualInsert(r)
    \/ UpdateReadEvent(r) \/ UpdateWrite(r)
    \/ JoinReadEvent(r) \/ JoinReadNickname(r) \/ JoinInsert(r)
    \/ SubmitReadEvent(r) \/ SubmitReadGuest(r) \/ SubmitUpsert(r)
    \/ Return(r)

Next == \E r \in Req : Handler(r)

Spec == Init /\ [][Next]_vars

(***************************************************************************)
(* One request at a time: a single worker handles a request to its end     *)
(* before it takes the next.                                               *)
(***************************************************************************)
NextSeq ==
    \E r \in Req :
        /\ \A s \in Req \ {r} : req[s].pc = "idle"
        /\ Handler(r)

SpecSeq == Init /\ [][NextSeq]_vars

(***************************************************************************)
(* Fallible store calls.  No handler of matching.py catches an exception:  *)
(* a store call that raises ends the request with a 500, and what the      *)
(* request wrote before stays written.  StoreFails(r) is request r's next  *)
(* store call raising instead of taking effect.                            *)
(***************************************************************************)
Ops ==
    {"run_matching", "reveal_matches", "get_my_match", "delete_match",
     "create_manual_match", "update_event", "join_event", "submit_responses"}

StoreFails(r) ==
    /\ \/ /\ Arrives(r)
          /\ \E op \in Ops :
                Reply(r, op, None, NoArg, 500, Error("Internal Server Error"))
          /\ started' = started + 1
       \/ /\ req[r].pc \notin {"idle", "done"}
          /\ \A s \in Req : req[s].pc # "done"
          /\ req' = [req EXCEPT ![r] =
                        [@ EXCEPT !.pc = "done", !.status = 500,
                                  !.result = Error("Internal Server Error")]]
          /\ started' = started
    /\ UNCHANGED store

NextSeqFallible ==
    \E r \in Req :
        /\ \A s \in Req \ {r} : req[s].pc = "idle"
        /\ (Handler(r) \/ StoreFails(r))

SpecSeqFallible == Init /\ [][NextSeqFallible]_vars

(***************************************************************************)
(* The algorithm of run_matching on its own: one run_matching request on   *)
(* an event whose guests, answers, matching_mode and matches_per_guest are *)
(* drawn from wider sets.                                                  *)
(***************************************************************************)
\* what a guest of the algorithm specification is like and has answered
AlgoKinds ==
    {[gender |-> "female", looking_for |-> "male", answers |-> (1 :> "x") @@ (2 :> "x")],
     [gender |-> "male", looking_for |-> "female", answers |-> (1 :> "x") @@ (2 :> "y")],
     [gender |-> "male", looking_for |-> "any", answers |-> (1 :> "y")],
     [gender |-> "other", looking_for |-> "female", answers |-> (2 :> "x")],
     [gender |-> None, looking_for |-> None, answers |-> <<>>]}

AlgoNicknames == <<"g1", "g2", "g3", "g4", "g5", "g6">>

AlgoGuests(kinds) ==
    [i \in 1..Len(kinds) |->
        [id |-> i, event_id |-> EventId, nickname |-> AlgoNicknames[i],
         gender |-> kinds[i].gender, looking_for |-> kinds[i].looking_for]]

AlgoResponses(kinds) ==
    {[guest_id |-> i, question_id |-> q, answer |-> kinds[i].answers[q]] :
        <<i, q>> \in {p \in (1..Len(kinds)) \X (1..MaxQuestions) :
                         p[2] \in DOMAIN kinds[p[1]].answers}}

InitAlgo ==
    /\ \E mode \in MatchingModes, cap \in MinMatchesPerGuest..MaxMatchesPerGuest :
          event = NewEvent(None, mode, cap)
    /\ \E n \in 0..MaxAlgoGuests : \E kinds \in [1..n -> AlgoKinds] :
          /\ guests = AlgoGuests(kinds)
          /\ responses = AlgoResponses(kinds)
    /\ matches = <<>>
    /\ req = [r \in Req |-> Idle]
    /\ started = MaxRequests - 1

NextAlgo ==
    \E r \in {"r1"} :
        \/ RunReadEvent(r) \/ RunReadGuests(r) \/ RunReadResponses(r)
        \/ RunDeleteMatches(r) \/ RunInsertMatches(r) \/ RunUpdateEvent(r)
        \/ Return(r)

SpecAlgo == InitAlgo /\ [][NextAlgo]_vars

(***************************************************************************)
(* The preference filter on its own: one run_matching request on an event  *)
(* with two guests of every profile a join can store (gender and           *)
(* looking_for each unset or one of their three values).                   *)
(***************************************************************************)
Profiles == [gender : Genders \cup {None}, looking_for : LookingFors \cup {None}]

ProfileGuests(profiles) ==
    [i \in 1..Len(profiles) |->
        [id |-> i, event_id |-> EventId, nickname |-> AlgoNicknames[i],
         gender |-> profiles[i].gender, looking_for |-> profiles[i].looking_for]]

InitCompat ==
    /\ \E mode \in MatchingModes : event = NewEvent(None, mode, MinMatchesPerGuest)
    /\ \E pa, pb \in Profiles : guests = ProfileGuests(<<pa, pb>>)
    /\ responses = {}
    /\ matches = <<>>
    /\ req = [r \in Req |-> Idle]
    /\ started = MaxRequests - 1

SpecCompat == InitCompat /\ [][NextAlgo]_vars

(***************************************************************************)
(* The similarity score on its own: one run_matching request on an event   *)
(* in mode any with two guests, each with any answers ("x" or "y") to any  *)
(* of the questions 1..MaxQuestions.                                       *)
(***************************************************************************)
AnswerMaps == UNION {[qs -> {"x", "y"}] : qs \in SUBSET (1..MaxQuestions)}

InitSim ==
    /\ event = NewEvent(None, "any", MinMatchesPerGuest)
    /\ \E ma, mb \in AnswerMaps :
          LET kinds == <<[gender |-> None, looking_for |-> None, answers |-> ma],
                         [gender |-> None, looking_for |-> None, answers |-> mb]>>
          IN  /\ guests = AlgoGuests(kinds)
              /\ responses = AlgoResponses(kinds)
    /\ matches = <<>>
    /\ req = [r \in Req |-> Idle]
    /\ started = MaxRequests - 1

SpecSim == InitSim /\ [][NextAlgo]_vars

(***************************************************************************)
(* The algorithm on the worked example of four guests: in mode             *)
(* preference_based the filter passes (G1,G2), (G1,G3) and (G2,G4) only,   *)
(* and the answers to ten questions score them 9/10, 4/5 and 1/2.  The     *)
(* specification starts from this event or from one of InitAlgo.           *)
(***************************************************************************)
ExampleQuestions == 1..10

ExampleKinds ==
    <<[gender |-> "female", looking_for |-> "any",
       answers |-> [q \in ExampleQuestions |-> "x"]],
      [gender |-> "male", looking_for |-> "female",
       answers |-> [q \in ExampleQuestions |-> IF q = 10 THEN "y" ELSE "x"]],
      [gender |-> "other", looking_for |-> "female",
       answers |-> [q \in 1..5 |-> IF q = 5 THEN "y" ELSE "x"]],
      [gender |-> "female", looking_for |-> "male",
       answers |-> (1 :> "x") @@ (10 :> "x")]>>

ExampleResponses ==
    {[guest_id |-> i, question_id |-> q, answer |-> ExampleKinds[i].answers[q]] :
        <<i, q>> \in {p \in (1..Len(ExampleKinds)) \X ExampleQuestions :
                         p[2] \in DOMAIN ExampleKinds[p[1]].answers}}

InitExample ==
    /\ event = NewEvent(None, "preference_based", MinMatchesPerGuest)
    /\ guests = AlgoGuests(ExampleKinds)
    /\ responses = ExampleResponses
    /\ matches = <<>>
    /\ req = [r \in Req |-> Idle]
    /\ started = MaxRequests - 1

SpecExamples == (InitAlgo \/ InitExample) /\ [][NextAlgo]_vars

(***************************************************************************)
(* The interleaved requests on an event whose matches_per_guest is 1 or 2  *)
(* and that two guests have joined.                                        *)
(***************************************************************************)
InitCaps ==
    /\ \E host \in {None, HostUser}, cap \in SmallCaps :
          event = NewEvent(host, "any", cap)
    /\ guests = JoinedGuests(2)
    /\ responses = {}
    /\ matches = <<>>
    /\ req = [r \in Req |-> Idle]
    /\ started = 0

SpecCaps == InitCaps /\ [][Next]_vars

(***************************************************************************)
(* Helpers of the properties.                                              *)
(***************************************************************************)
\* the number of rows with guest g at either end
PairsOf(rows, g) ==
    Cardinality({i \in 1..Len(rows) :
                    rows[i].guest_a_id = g \/ rows[i].guest_b_id = g})

EndpointsOf(rows) ==
    {rows[i].guest_a_id : i \in 1..Len(rows)} \cup {rows[i].guest_b_id : i \in 1..Len(rows)}

\* the stored matches of the event, without the ids the store gave them
StoredRows ==
    LET mine == SelectSeq(matches, LAMBDA m : m.event_id = EventId)
    IN  [i \in 1..Len(mine) |->
            [event_id |-> mine[i].event_id, guest_a_id |-> mine[i].guest_a_id,
             guest_b_id |-> mine[i].guest_b_id, score |-> mine[i].score]]

RunDone(r) ==
    req[r].op = "run_matching" /\ req[r].pc = "done" /\ req[r].status = 200

\* request r takes a step of handler op
StepOf(r, op) ==
    req'[r].op = op /\ req'[r].pc # req[r].pc

(***************************************************************************)
(* C1.  In every run of run_matching, whatever the guests, their answers,  *)
(* the matching_mode and the matches_per_guest (1..5) of the event, no     *)
(* guest id is at an end of more than matches_per_guest of the pairs the   *)
(* run accepts, nor of the matches it has stored when it returns.          *)
(***************************************************************************)
C1_Capacity ==
    \A r \in Req :
        (req[r].op = "run_matching" /\ req[r].ev # {}) =>
            LET cap == (CHOOSE e \in req[r].ev : TRUE).matches_per_guest
            IN  /\ \A g \in EndpointsOf(req[r].data) : PairsOf(req[r].data, g) <= cap
                /\ RunDone(r) =>
                      /\ Len(matches) = Len(req[r].data)
                      /\ \A g \in EndpointsOf(matches) : PairsOf(matches, g) <= cap

\* a run with four guests and a limit of two has accepted four pairs, every
\* guest at its limit, and so refused two pairs
C1_Witness ==
    \E r \in Req :
        /\ RunDone(r)
        /\ event.matches_per_guest = 2
        /\ Len(req[r].data) = 4
        /\ \A g \in 1..4 : PairsOf(matches, g) = 2

(***************************************************************************)
(* C2.  When a run_matching request that no other request interleaves      *)
(* with returns 200, the stored matches of the event are exactly the pairs *)
(* this run computed, in their order (whatever was stored before is        *)
(* gone), matching_completed is true, and matches_count is the number of   *)
(* stored matches.                                                         *)
(***************************************************************************)
C2_RunReplacesMatches ==
    \A r \in Req :
        RunDone(r) =>
            /\ StoredRows = req[r].data
            /\ event.matching_completed
            /\ req[r].result.matches_count = Len(StoredRows)

\* a run has returned that deleted a manual match (score 1.0 while no guest
\* has answered) and stored pairs of its own
C2_Witness ==
    \E r \in Req :
        /\ RunDone(r)
        /\ responses = {}
        /\ req[r].data # <<>>
        /\ \E old \in req[r].deleted : \E i \in 1..Len(old) : old[i].score = ScoreOne

(***************************************************************************)
(* C3.  In every reachable state, under every interleaving of the          *)
(* requests, matches_revealed implies matching_completed.                  *)
(***************************************************************************)
C3_RevealedImpliesCompleted ==
    event.matches_revealed => event.matching_completed

\* the event is revealed while a run is between its delete and its insert
C3_Witness ==
    /\ event.matches_revealed
    /\ \E r \in Req : req[r].op = "run_matching" /\ req[r].pc = "insert_matches"

(***************************************************************************)
(* C4.  No step of run_matching changes matches_revealed: revealed stays   *)
(* revealed over a re-run, unrevealed stays unrevealed.                    *)
(***************************************************************************)
C4_RunKeepsRevealed ==
    [][\A r \in Req :
            StepOf(r, "run_matching") =>
                event'.matches_revealed = event.matches_revealed]_vars

\* a re-run (its delete found stored matches) has returned and the event is
\* revealed
C4_Witness ==
    \E r \in Req :
        /\ RunDone(r)
        /\ event.matches_revealed
        /\ \E old \in req[r].deleted : old # <<>>

(***************************************************************************)
(* C5.  get_my_match never returns match data while matches_revealed is    *)
(* false: it answers 403 for every guest id, matching completed or not.    *)
(* Once matches_revealed is true it answers 200; a guest id at no end of a *)
(* stored match of the event gets match = null (the empty set here), and a *)
(* guest id at an end of a stored match whose other guest exists gets the  *)
(* id of the other end of one of its matches, with that match's score.     *)
(* No other request runs between the call and its answer.                  *)
(***************************************************************************)
C5_MyMatchGate ==
    \A r \in Req :
        (req[r].op = "get_my_match" /\ req[r].pc = "done" /\ req[r].status \notin {404, 500}) =>
            LET g == req[r].arg.guest_id
                mine == {i \in 1..Len(matches) :
                            /\ matches[i].event_id = EventId
                            /\ g \in {matches[i].guest_a_id, matches[i].guest_b_id}}
                other(i) == IF matches[i].guest_a_id = g THEN matches[i].guest_b_id
                                                        ELSE matches[i].guest_a_id
                exists(id) == \E k \in 1..Len(guests) : guests[k].id = id
            IN  IF ~event.matches_revealed
                THEN req[r].status = 403 /\ "match" \notin DOMAIN req[r].result
                ELSE /\ req[r].status = 200
                     /\ mine = {} => req[r].result.match = {}
                     /\ (\E i \in mine : exists(other(i))) =>
                            \E i \in mine, m \in req[r].result.match :
                                /\ m.id = other(i)
                                /\ m.score = matches[i].score

\* the guest at the second end of a stored match has been given the guest at
\* its first end
C5_Witness ==
    \E r \in Req :
        /\ req[r].op = "get_my_match" /\ req[r].pc = "done" /\ req[r].status = 200
        /\ \E i \in 1..Len(matches), m \in req[r].result.match :
              /\ matches[i].guest_b_id = req[r].arg.guest_id
              /\ matches[i].guest_a_id = m.id

(***************************************************************************)
(* C6.  reveal_matches by a permitted caller on an event whose             *)
(* matching_completed is false answers 400 and writes nothing:             *)
(* matches_revealed is still false and the stored matches are the same.    *)
(* On an event whose matching_completed is true it goes on to its write,   *)
(* which sets matches_revealed to true, answers 200 and changes nothing    *)
(* else.                                                                   *)
(***************************************************************************)
C6_Reveal ==
    [][\A r \in Req :
            StepOf(r, "reveal_matches") =>
                IF req[r].pc = "idle"
                THEN /\ UNCHANGED store
                     /\ req'[r].status \notin {403, 404} =>
                           IF event.matching_completed
                           THEN req'[r].pc = "update_event"
                           ELSE /\ req'[r].pc = "done" /\ req'[r].status = 400
                                /\ ~event'.matches_revealed
                ELSE /\ event' = [event EXCEPT !.matches_revealed = TRUE]
                     /\ UNCHANGED <<guests, responses, matches>>
                     /\ req'[r].pc = "done" /\ req'[r].status = 200]_vars

\* a reveal has returned 200 on an event with stored matches
C6_Witness ==
    \E r \in Req :
        /\ req[r].op = "reveal_matches" /\ req[r].pc = "done" /\ req[r].status = 200
        /\ event.matches_revealed /\ event.matching_completed
        /\ matches # <<>>

(***************************************************************************)
(* C7.  On an event with a host, run_matching, reveal_matches,             *)
(* create_manual_match and delete_match called by another user answer 403  *)
(* in their first step, with nothing written: matches and both flags are   *)
(* unchanged.  The host is never answered 403, and on an event without a   *)
(* host no caller is.                                                      *)
(***************************************************************************)
HostOps == {"run_matching", "reveal_matches", "create_manual_match", "delete_match"}

C7_HostOnly ==
    [][\A r \in Req :
            (req[r].pc = "idle" /\ req'[r].op \in HostOps /\ req'[r].status # 404) =>
                IF event.host_user_id # None /\ req'[r].user # event.host_user_id
                THEN /\ req'[r].pc = "done" /\ req'[r].status = 403
                     /\ UNCHANGED store
                ELSE req'[r].status # 403]_vars

\* another user than the host has been answered 403 on an event that has
\* stored matches
C7_Witness ==
    \E r \in Req :
        /\ req[r].op \in HostOps /\ req[r].pc = "done" /\ req[r].status = 403
        /\ req[r].user # event.host_user_id
        /\ matches # <<>>

(***************************************************************************)
(* C8.  run_matching on an event with fewer than 2 guests answers 400 and  *)
(* has written nothing.  With at least 2 guests a permitted caller's run   *)
(* goes on past the guest check whatever matching_completed and            *)
(* matches_revealed are.                                                   *)
(***************************************************************************)
C8_TwoGuests ==
    [][\A r \in Req :
            StepOf(r, "run_matching") =>
                /\ req[r].pc = "idle" =>
                      /\ UNCHANGED store
                      /\ req'[r].status \notin {403, 404} => req'[r].pc = "read_guests"
                /\ req[r].pc = "read_guests" =>
                      IF Len(EventGuests(EventId)) < 2
                      THEN /\ req'[r].pc = "done" /\ req'[r].status = 400
                           /\ UNCHANGED store
                      ELSE req'[r].pc = "read_responses"]_vars

\* a run on an event with one guest has returned 400
C8_Witness ==
    \E r \in Req :
        /\ req[r].op = "run_matching" /\ req[r].pc = "done" /\ req[r].status = 400
        /\ Len(EventGuests(EventId)) = 1

(***************************************************************************)
(* C9.  create_manual_match by a permitted caller with two different guest *)
(* ids of the event goes on to its insert, which appends exactly one match *)
(* with these two ids and score 1.0 and answers 200, whatever the guests'  *)
(* preferences, answers and numbers of matches.  No step of it changes the *)
(* event (matching_completed, matches_revealed), the guests, the answers   *)
(* or another stored match.                                                *)
(***************************************************************************)
C9_ManualMatch ==
    [][\A r \in Req :
            StepOf(r, "create_manual_match") =>
                /\ UNCHANGED <<event, guests, responses>>
                /\ req[r].pc # "insert" => matches' = matches
                /\ req[r].pc = "read_guests" =>
                      LET a == req[r].arg.guest_a_id
                          b == req[r].arg.guest_b_id
                          ofEvent(id) == \E k \in 1..Len(guests) :
                                            guests[k].id = id /\ guests[k].event_id = EventId
                      IN  (a # b /\ ofEvent(a) /\ ofEvent(b)) => req'[r].pc = "insert"
                /\ req[r].pc = "insert" =>
                      /\ Len(matches') = Len(matches) + 1
                      /\ SubSeq(matches', 1, Len(matches)) = matches
                      /\ LET new == matches'[Len(matches')]
                         IN  /\ new.event_id = EventId
                             /\ new.guest_a_id = req[r].arg.guest_a_id
                             /\ new.guest_b_id = req[r].arg.guest_b_id
                             /\ new.score = ScoreOne
                             /\ \A i \in 1..Len(matches) : matches[i].id # new.id
                      /\ req'[r].pc = "done" /\ req'[r].status = 200]_vars

\* a manual match has been stored after matching completed and has put a
\* guest above the event's matches_per_guest
C9_Witness ==
    \E r \in Req :
        /\ req[r].op = "create_manual_match" /\ req[r].pc = "done" /\ req[r].status = 200
        /\ event.matching_completed
        /\ \E g \in EndpointsOf(matches) : PairsOf(matches, g) > event.matches_per_guest

(***************************************************************************)
(* C10.  With store calls that can fail, every run_matching request that   *)
(* has ended (no other request in between) has either left the stored      *)
(* matches of the event equal to the pairs it computed, or has deleted no  *)
(* match, so that the matches stored before it are still stored.           *)
(***************************************************************************)
C10_NoPartialFailure ==
    \A r \in Req :
        (req[r].op = "run_matching" /\ req[r].pc = "done") =>
            \/ \A old \in req[r].deleted : old = <<>>
            \/ StoredRows = req[r].data

(***************************************************************************)
(* C11.  Once matching_completed is true, no step changes matching_mode or *)
(* matches_per_guest, also when an update_event request interleaves with a *)
(* run_matching request on the event.                                      *)
(***************************************************************************)
C11_SettingsImmutable ==
    [][event.matching_completed =>
            /\ event'.matching_mode = event.matching_mode
            /\ event'.matches_per_guest = event.matches_per_guest]_vars

(***************************************************************************)
(* C12.  reveal_matches is idempotent: a call made after a reveal has      *)
(* succeeded (matches_revealed already true; one request at a time) passes *)
(* its checks for a permitted caller, answers 200, and leaves the store    *)
(* exactly as the first call left it: matches_revealed true, the matches   *)
(* and everything else unchanged.                                          *)
(***************************************************************************)
C12_RevealIdempotent ==
    [][\A r \in Req :
            (StepOf(r, "reveal_matches") /\ event.matches_revealed) =>
                /\ UNCHANGED store
                /\ event'.matches_revealed
                /\ IF req[r].pc = "idle"
                   THEN req'[r].status \notin {403, 404} => req'[r].pc = "update_event"
                   ELSE req'[r].pc = "done" /\ req'[r].status = 200]_vars

\* after a reveal that succeeded, a second reveal has passed its checks and
\* is at its write, on an event with stored matches
C12_Witness ==
    \E r \in Req :
        /\ req[r].op = "reveal_matches" /\ req[r].pc = "update_event"
        /\ event.matches_revealed
        /\ matches # <<>>

(***************************************************************************)
(* C13.  In every reachable state every stored match, from run_matching or *)
(* from create_manual_match, has two different guest ids, both of guests   *)
(* of the match's event, and a score between 0 and 1.  A manual match      *)
(* whose two ids are equal, or one of which is not a guest of the event,   *)
(* is answered 400 and nothing is written.                                 *)
(***************************************************************************)
GuestOfEvent(id, event_id) ==
    \E k \in 1..Len(guests) : guests[k].id = id /\ guests[k].event_id = event_id

ValidMatch(m) ==
    /\ m.guest_a_id # m.guest_b_id
    /\ GuestOfEvent(m.guest_a_id, m.event_id)
    /\ GuestOfEvent(m.guest_b_id, m.event_id)
    /\ ScoreGE(m.score, ScoreZero) /\ ScoreGE(ScoreOne, m.score)

C13_MatchesValid ==
    /\ [](\A i \in 1..Len(matches) : ValidMatch(matches[i]))
    /\ [][\A r \in Req :
              (StepOf(r, "create_manual_match") /\ req[r].pc = "read_guests") =>
                  LET a == req[r].arg.guest_a_id
                      b == req[r].arg.guest_b_id
                  IN  (a = b \/ ~GuestOfEvent(a, EventId) \/ ~GuestOfEvent(b, EventId)) =>
                          /\ req'[r].pc = "done" /\ req'[r].status = 400
                          /\ UNCHANGED store]_vars

\* a manual match with a guest of another event has been answered 400 on an
\* event that has stored matches
C13_Witness ==
    \E r \in Req :
        /\ req[r].op = "create_manual_match" /\ req[r].pc = "done" /\ req[r].status = 400
        /\ ~GuestOfEvent(req[r].arg.guest_a_id, EventId)
        /\ GuestOfEvent(req[r].arg.guest_a_id, OtherEventId)
        /\ matches # <<>>

(***************************************************************************)
(* C14.  In every reachable state, also when join_event requests for the   *)
(* same event and nickname interleave, no two guests of one event have the *)
(* same nickname.                                                          *)
(***************************************************************************)
C14_NicknamesUnique ==
    \A i, j \in 1..Len(guests) :
        (i # j /\ guests[i].event_id = guests[j].event_id) =>
            guests[i].nickname # guests[j].nickname

(***************************************************************************)
(* C15.  The pairs a run accepts are maximal under the limit: when the run *)
(* has computed them, every pair of guests of the event that passes the    *)
(* preference filter and was not accepted has an end with                  *)
(* matches_per_guest accepted pairs.  The accepted pairs are in ranked     *)
(* order: score descending, pairs of equal score in the order the guest    *)
(* list enumerates them; the run stores them in that order.                *)
(***************************************************************************)
Accepted(rows, a, b) ==
    \E i \in 1..Len(rows) : rows[i].guest_a_id = a /\ rows[i].guest_b_id = b

\* row x comes before row y in ranked order (guest ids number the guest list)
RankedBefore(x, y) ==
    \/ ScoreGT(x.score, y.score)
    \/ /\ x.score = y.score
       /\ \/ x.guest_a_id < y.guest_a_id
          \/ x.guest_a_id = y.guest_a_id /\ x.guest_b_id < y.guest_b_id

C15_GreedyMaximal ==
    \A r \in Req :
        (req[r].op = "run_matching" /\ req[r].ev # {}
            /\ req[r].pc \in {"delete_matches", "insert_matches", "update_event", "done"}) =>
            LET cap == event.matches_per_guest
                rows == req[r].data
            IN  /\ \A i, j \in 1..Len(guests) :
                      (i < j /\ is_compatible(guests[i], guests[j], event.matching_mode)
                          /\ ~Accepted(rows, guests[i].id, guests[j].id)) =>
                          \/ PairsOf(rows, guests[i].id) >= cap
                          \/ PairsOf(rows, guests[j].id) >= cap
                /\ \A i, j \in 1..Len(rows) : i < j => RankedBefore(rows[i], rows[j])
                /\ RunDone(r) => StoredRows = rows

\* a run has ended that accepted two pairs of different scores and refused a
\* pair that passes the filter
C15_Witness ==
    \E r \in Req :
        /\ RunDone(r)
        /\ Len(req[r].data) >= 2
        /\ req[r].data[1].score # req[r].data[2].score
        /\ \E i, j \in 1..Len(guests) :
              /\ i < j
              /\ is_compatible(guests[i], guests[j], event.matching_mode)
              /\ ~Accepted(req[r].data, guests[i].id, guests[j].id)

(***************************************************************************)
(* C16.  The ranked pair list of a run holds every pair of guests of the   *)
(* event that passes the preference filter exactly once, as (earlier       *)
(* guest, later guest) of the guest list and never the other way round,    *)
(* and no pair that fails the filter; it is ordered by score descending    *)
(* and pairs of equal score are in the order in which the guest list       *)
(* enumerates them.                                                        *)
(***************************************************************************)
C16_RankedPairs ==
    \A r \in Req :
        (req[r].op = "run_matching" /\ req[r].ev # {}
            /\ req[r].pc \in {"delete_matches", "insert_matches", "update_event", "done"}) =>
            LET L == req[r].all_pairs
                at(i, j) == {k \in 1..Len(L) : L[k].a = guests[i].id /\ L[k].b = guests[j].id}
            IN  /\ \A i, j \in 1..Len(guests) :
                      i < j =>
                          /\ at(j, i) = {}
                          /\ Cardinality(at(i, j)) =
                                IF is_compatible(guests[i], guests[j], event.matching_mode)
                                THEN 1 ELSE 0
                /\ \A k \in 1..Len(L) :
                      \E i, j \in 1..Len(guests) : i < j /\ k \in at(i, j)
                /\ \A k, l \in 1..Len(L) :
                      k < l =>
                          \/ ScoreGT(L[k].score, L[l].score)
                          \/ /\ L[k].score = L[l].score
                             /\ \/ L[k].a < L[l].a
                                \/ L[k].a = L[l].a /\ L[k].b < L[l].b

\* a run has ranked at least three pairs, two of them of equal score, one
\* moved by the sort before a pair enumerated earlier, and the filter has
\* left a pair out
C16_Witness ==
    \E r \in Req :
        LET L == req[r].all_pairs
        IN  /\ RunDone(r)
            /\ Len(L) >= 3
            /\ 2 * Len(L) < Len(guests) * (Len(guests) - 1)
            /\ \E k, l \in 1..Len(L) : k < l /\ L[k].score = L[l].score
            /\ \E k, l \in 1..Len(L) :
                  /\ k < l
                  /\ ScoreGT(L[k].score, L[l].score)
                  /\ L[k].a > L[l].a

(***************************************************************************)
(* C17.  The preference filter of a run is the predicate of the            *)
(* specification for every profile of the two guests: always true in a     *)
(* mode other than preference_based; in preference_based, with an unset    *)
(* looking_for read as "any", true iff (aWants = any or aWants = B.gender) *)
(* and (bWants = any or bWants = A.gender).  The run ranks the pair of the *)
(* event's two guests iff the predicate holds.                             *)
(***************************************************************************)
Wants(guest) == IF guest.looking_for = None THEN "any" ELSE guest.looking_for

SpecifiedCompatible(guest_a, guest_b, matching_mode) ==
    \/ matching_mode # "preference_based"
    \/ /\ Wants(guest_a) = "any" \/ Wants(guest_a) = guest_b.gender
       /\ Wants(guest_b) = "any" \/ Wants(guest_b) = guest_a.gender

C17_PreferenceFilter ==
    \A r \in Req :
        (req[r].op = "run_matching" /\ req[r].ev # {}
            /\ req[r].pc \in {"delete_matches", "insert_matches", "update_event", "done"}) =>
            (req[r].all_pairs # <<>>) <=>
                SpecifiedCompatible(guests[1], guests[2], event.matching_mode)

(***************************************************************************)
(* C18.  The score a run gives two guests with answer maps A and B is 0    *)
(* when A or B is empty or they share no question, and otherwise (shared   *)
(* questions with equal answers) / (shared questions).  So it lies between *)
(* 0 and 1, is the same for (A, B) and (B, A), the expression being        *)
(* symmetric, and is 1 when A = B is not empty.                            *)
(***************************************************************************)
\* the questions guest g has answered, and its answer to q, in the store
Answered(g) == {row.question_id : row \in {x \in responses : x.guest_id = g}}

AnswerOf(g, q) == (CHOOSE row \in responses : row.guest_id = g /\ row.question_id = q).answer

C18_Similarity ==
    \A r \in Req :
        (req[r].op = "run_matching" /\ req[r].ev # {}
            /\ req[r].pc \in {"delete_matches", "insert_matches", "update_event", "done"}) =>
            LET score == req[r].all_pairs[1].score
                shared == Answered(1) \cap Answered(2)
                equal == {q \in shared : AnswerOf(1, q) = AnswerOf(2, q)}
            IN  /\ Len(req[r].all_pairs) = 1
                /\ ScoreGE(score, ScoreZero) /\ ScoreGE(ScoreOne, score)
                /\ IF shared = {}
                   THEN score = ScoreZero
                   ELSE score[1] * Cardinality(shared) = Cardinality(equal) * score[2]
                /\ (shared # {} /\ equal = shared) => score = ScoreOne
                /\ (Answered(1) = Answered(2) /\ Answered(1) # {} /\ equal = shared) =>
                      score = ScoreOne

\* a run has scored 1/2 two guests of whom one answered a question the other
\* did not
C18_Witness ==
    \E r \in Req :
        /\ RunDone(r)
        /\ req[r].all_pairs[1].score = <<1, 2>>
        /\ Answered(1) # Answered(2)
        /\ matches[1].score = <<1, 2>>

(***************************************************************************)
(* C19.  The greedy assignment takes the ranked pairs in order and never   *)
(* goes back.  On the four guests whose ranked pairs are (G1,G2) 0.9,      *)
(* (G1,G3) 0.8, (G2,G4) 0.5, with a limit of 1, the run accepts and stores *)
(* exactly (G1,G2); G3 and G4 stay unmatched.  On an event in mode any     *)
(* with a limit of 1 and three guests who gave the same answers, the run   *)
(* stores exactly one match, (G1,G2) with score 1.0; G3 stays unmatched.   *)
(***************************************************************************)
MatchRow(a, b, score) ==
    [event_id |-> EventId, guest_a_id |-> a, guest_b_id |-> b, score |-> score]

SameAnswers(g, h) ==
    /\ Answered(g) = Answered(h)
    /\ \A q \in Answered(g) : AnswerOf(g, q) = AnswerOf(h, q)

C19_GreedyExamples ==
    \A r \in Req :
        (req[r].op = "run_matching" /\ req[r].ev # {}
            /\ req[r].pc \in {"delete_matches", "insert_matches", "update_event", "done"}) =>
            /\ (guests = AlgoGuests(ExampleKinds) /\ responses = ExampleResponses
                    /\ event.matching_mode = "preference_based"
                    /\ event.matches_per_guest = 1) =>
                  /\ req[r].all_pairs = <<[a |-> 1, b |-> 2, score |-> <<9, 10>>],
                                           [a |-> 1, b |-> 3, score |-> <<4, 5>>],
                                           [a |-> 2, b |-> 4, score |-> <<1, 2>>]>>
                  /\ req[r].data = <<MatchRow(1, 2, <<9, 10>>)>>
                  /\ RunDone(r) => StoredRows = <<MatchRow(1, 2, <<9, 10>>)>>
            /\ (Len(guests) = 3 /\ event.matching_mode = "any"
                    /\ event.matches_per_guest = 1
                    /\ Answered(1) # {} /\ SameAnswers(1, 2) /\ SameAnswers(2, 3)) =>
                  /\ req[r].data = <<MatchRow(1, 2, ScoreOne)>>
                  /\ RunDone(r) => StoredRows = <<MatchRow(1, 2, ScoreOne)>>

\* the run on the four guests of the example has ended with one stored match
C19_Witness ==
    \E r \in Req :
        /\ RunDone(r)
        /\ guests = AlgoGuests(ExampleKinds) /\ responses = ExampleResponses
        /\ Len(req[r].all_pairs) = 3
        /\ Len(matches) = 1

(***************************************************************************)
(* C20.  run_matching is not atomic.  It computes its pairs from the guest *)
(* list it read in its second step and from nothing read later: the ends   *)
(* of its pairs are guests of that list, so a guest who joins afterwards   *)
(* is in none of them; the pairs do not change after they are computed;    *)
(* and its insert appends exactly these pairs to whatever the store holds  *)
(* at that moment.  The witness is the state the claim names: two runs     *)
(* whose deletes and inserts interleaved, and no other request, have left  *)
(* the matches of both stored and a guest above matches_per_guest.         *)
(***************************************************************************)
C20_RunNotAtomic ==
    [][\A r \in Req :
            StepOf(r, "run_matching") =>
                /\ (req[r].pc = "read_guests" /\ req'[r].pc = "read_responses") =>
                      req'[r].guests = SelectSeq(guests, LAMBDA g : g.event_id = EventId)
                /\ req[r].pc = "read_responses" =>
                      EndpointsOf(req'[r].data) \subseteq
                          {req[r].guests[k].id : k \in 1..Len(req[r].guests)}
                /\ req[r].pc \in {"delete_matches", "insert_matches", "update_event"} =>
                      req'[r].data = req[r].data
                /\ req[r].pc = "insert_matches" =>
                      /\ Len(matches') = Len(matches) + Len(req[r].data)
                      /\ SubSeq(matches', 1, Len(matches)) = matches
                      /\ \A k \in 1..Len(req[r].data) :
                            LET m == matches'[Len(matches) + k]
                            IN  MatchRow(m.guest_a_id, m.guest_b_id, m.score) = req[r].data[k]]_vars

\* two runs, the only requests so far, have both inserted: the store holds
\* the pairs of both and a guest has more than matches_per_guest matches
C20_Witness ==
    /\ started = 2
    /\ \A r \in Req : req[r].op = "run_matching" /\ req[r].pc = "update_event"
    /\ \E r, s \in Req : r # s /\ StoredRows = req[r].data \o req[s].data
    /\ \E g \in EndpointsOf(matches) : PairsOf(matches, g) > event.matches_per_guest

=============================================================================
